---- MODULE Spec2Model ----
(***************************************************************************)
(* BudgetOps-AI: the email-to-transaction pipeline (parser_chain.py,        *)
(* categorize_chain.py, db/client.py), the insight generator                *)
(* (insight_chain.py) and the batch coordinator that drives them.           *)
(*                                                                          *)
(* Python values are encoded as tagged records: a dict is a record whose    *)
(* fields hold Num(n), Str(s), Null (None) or Absent (key not in the dict). *)
(* Amounts are whole rupees; confidences are hundredths (50 is 0.5).        *)
(***************************************************************************)
EXTENDS Integers, Sequences, FiniteSets, Bags, TLC

\* ------------------------------------------------------------- bounds
NumMsgs == 3
MaxRuns == 2
NumProcs == 2
MaxTxns == 2

MsgIds == 1..NumMsgs
Procs == 1..NumProcs

\* ------------------------------------------------------ python values
Null == [k |-> "null"]
Absent == [k |-> "absent"]
Num(n) == [k |-> "num", v |-> n]
Str(s) == [k |-> "str", v |-> s]
\* The value None as a function result (Optional[Dict]).
None == [k |-> "None"]
\* An exception leaving a function (never produced by the code as written).
Raised == [k |-> "raised"]

IsNum(x) == x.k = "num"
IsStr(x) == x.k = "str"

\* dict.get(key, default): the default only when the key is missing.
Get(d, key, default) == IF d[key] = Absent THEN default ELSE d[key]

\* ------------------------------------------------ parser_chain.py
\* float(s) for a JSON string s, given as a sequence of characters:
\* an optional sign followed by one or more digits.
Digits == <<"0", "1", "2", "3", "4", "5", "6", "7", "8", "9">>
IsDigit(c) == \E i \in 1..10 : Digits[i] = c
DigitVal(c) == (CHOOSE i \in 1..10 : Digits[i] = c) - 1

RECURSIVE DigitsVal(_)
DigitsVal(cs) ==
  IF cs = <<>> THEN 0
  ELSE 10 * DigitsVal(SubSeq(cs, 1, Len(cs) - 1)) + DigitVal(cs[Len(cs)])

IsNumeric(cs) ==
  LET body == IF cs # <<>> /\ cs[1] = "-" THEN Tail(cs) ELSE cs
  IN  body # <<>> /\ \A i \in 1..Len(body) : IsDigit(body[i])

StrToFloat(cs) ==
  IF cs[1] = "-" THEN 0 - DigitsVal(Tail(cs)) ELSE DigitsVal(cs)

\* Dates are strings given as sequences of characters.
Date(cs) == Str(cs)
\* "2025-10-30" and "30-10-25"
IsoDate == Date(<<"2", "0", "2", "5", "-", "1", "0", "-", "3", "0">>)
ShortDate == Date(<<"3", "0", "-", "1", "0", "-", "2", "5">>)

\* TransactionData: pydantic's validation of one decoded JSON object.
\* amount: float (a number, or a numeric string, which pydantic coerces);
\* transaction_type, date, timestamp: str, required;
\* card, to, transaction_reference_number, description: Optional, default None.
AmountValid(a) == IsNum(a) \/ (IsStr(a) /\ IsNumeric(a.v))
AmountValue(a) == IF IsNum(a) THEN a.v ELSE StrToFloat(a.v)

TransactionDataValid(obj) ==
  /\ AmountValid(obj.amount)
  /\ IsStr(obj.transaction_type)
  /\ IsStr(obj.date)
  /\ IsStr(obj.timestamp)

TransactionData(obj) ==
  [amount |-> Num(AmountValue(obj.amount)),
   transaction_type |-> obj.transaction_type,
   date |-> obj.date,
   timestamp |-> obj.timestamp,
   to |-> IF obj.to = Absent THEN Null ELSE obj.to,
   email_id |-> Absent,
   category |-> Absent,
   sub_category |-> Absent,
   category_confidence |-> Absent]

\* An LLM reply: the call raised (kind "error"), or it returned text that is
\* no JSON object of the schema (kind "text", json None), or a JSON object.
LlmError == [kind |-> "error", json |-> None]
LlmGarbage == [kind |-> "text", json |-> None]
LlmJson(obj) == [kind |-> "text", json |-> obj]

\* parse_email calling the LLM a second time when the first call raised or
\* its reply did not parse.
ParseEmailInvocations_Retry(resp) ==
  IF resp.kind = "error" \/ resp.json = None THEN 2 ELSE 1

\* The calls of self.llm.invoke that one parse_email makes: the one of the try
\* block, whatever the reply; the except clause returns None without another.
ParseEmailInvocations(resp) == 1

\* parse_email without its try/except: a failed LLM call or an unparsable
\* reply leaves the function as an exception.
ParseEmail_Unguarded(resp) ==
  IF resp.kind = "error" THEN Raised
  ELSE IF resp.json = None THEN Raised
  ELSE IF ~TransactionDataValid(resp.json) THEN Raised
  ELSE TransactionData(resp.json)

\* EmailParser.parse_email: the parsed dict, or None on any exception.
ParseEmail(resp) ==
  IF resp.kind = "error" THEN None
  ELSE IF resp.json = None THEN None
  ELSE IF ~TransactionDataValid(resp.json) THEN None
  ELSE TransactionData(resp.json)

\* parse_email_batch appending the parsed dict as parse_email returned it.
ParseEmailBatchStep_Untagged(email_id, resp) == ParseEmail(resp)

\* EmailParser.parse_email_batch, one iteration: a parsed dict is tagged with
\* the id of the email it came from; a failed parse contributes nothing.
ParseEmailBatchStep(email_id, resp) ==
  LET parsed == ParseEmail(resp)
  IN  IF parsed = None \/ parsed = Raised THEN parsed
      ELSE [parsed EXCEPT !.email_id = Num(email_id)]

\* EmailParser.parse_email_batch: the results list. emails are given by their
\* ids, resps[i] is the model's reply for emails[i].
RECURSIVE ParseEmailBatch(_, _)
ParseEmailBatch(emails, resps) ==
  IF emails = <<>> THEN <<>>
  ELSE LET results == ParseEmailBatch(SubSeq(emails, 1, Len(emails) - 1), resps)
           parsed == ParseEmailBatchStep(emails[Len(emails)], resps[Len(emails)])
       IN  IF parsed # None THEN Append(results, parsed) ELSE results

\* ---------------------------------------------- categorize_chain.py
\* TransactionCategorizer.CATEGORIES
CATEGORIES ==
  <<"Food & Dining", "Groceries", "Transportation", "Shopping", "Entertainment",
    "Bills & Utilities", "Healthcare", "Education", "Travel", "Investment",
    "Transfer", "Others">>

\* CategoryData: category: str, required; sub_category: Optional[str] = None;
\* confidence: float = 1.0.
CategoryDataValid(obj) ==
  /\ IsStr(obj.category)
  /\ obj.sub_category \in {Absent, Null} \/ IsStr(obj.sub_category)
  /\ obj.confidence = Absent \/ IsNum(obj.confidence)

CategoryData(obj) ==
  [category |-> obj.category,
   sub_category |-> IF obj.sub_category = Absent THEN Null ELSE obj.sub_category,
   confidence |-> IF obj.confidence = Absent THEN Num(100) ELSE obj.confidence]

\* TransactionCategorizer.categorize_transaction: the model's answer as a dict,
\* or None on any exception (LLM error, timeout, unparsable output).
CategorizeTransaction(transaction, resp) ==
  IF resp.kind = "error" THEN None
  ELSE IF resp.json = None THEN None
  ELSE IF ~CategoryDataValid(resp.json) THEN None
  ELSE CategoryData(resp.json)

\* categorize_batch without the else branch: no fallback is attached.
CategorizeBatchStep_NoFallback(transaction, resp) ==
  LET category_data == CategorizeTransaction(transaction, resp)
  IN  IF category_data # None
      THEN [transaction EXCEPT
              !.category = category_data.category,
              !.sub_category = category_data.sub_category,
              !.category_confidence = category_data.confidence]
      ELSE transaction

\* TransactionCategorizer.categorize_batch, one iteration: the answer's three
\* fields are attached to the transaction, or the fallback when there is none.
CategorizeBatchStep(transaction, resp) ==
  LET category_data == CategorizeTransaction(transaction, resp)
  IN  IF category_data = Raised THEN Raised
      ELSE IF category_data # None
      THEN [transaction EXCEPT
              !.category = category_data.category,
              !.sub_category = category_data.sub_category,
              !.category_confidence = category_data.confidence]
      ELSE [transaction EXCEPT
              !.category = Str("Others"),
              !.sub_category = Null,
              !.category_confidence = Num(50)]

\* ------------------------------------------------ insight_chain.py
\* The transactions of the list that enter the transaction summary.
TopN == 5

\* A Python list argument; None is the absent one.
List(q) == [k |-> "list", v |-> q]
Truthy(transactions) == transactions.k = "list" /\ transactions.v # <<>>
IsDebit(t) == Get(t, "transaction_type", Null) = Str("debit")
Min(a, b) == IF a < b THEN a ELSE b

\* category_totals[cat] = category_totals.get(cat, 0) + t.get('amount', 0)
\* raises TypeError for a debit whose amount is None.
TotalsRaise(transactions) ==
  \E i \in 1..Len(transactions.v) :
    IsDebit(transactions.v[i]) /\ ~IsNum(Get(transactions.v[i], "amount", Num(0)))

\* t.get('to_merchant', 'Unknown')[:30] raises TypeError for a debit among
\* the first five whose to_merchant is None.
SummaryRaises(transactions) ==
  \E i \in 1..Min(TopN, Len(transactions.v)) :
    IsDebit(transactions.v[i])
      /\ ~IsStr(Get(transactions.v[i], "to_merchant", Str("Unknown")))

\* category_totals after the loop over the transactions: the dict's items in
\* the order the keys were first set. No debit has an amount that is None.
RECURSIVE CategoryTotals(_)
CategoryTotals(ts) ==
  IF ts = <<>> THEN <<>>
  ELSE LET before == CategoryTotals(SubSeq(ts, 1, Len(ts) - 1))
           t == ts[Len(ts)]
           cat == Get(t, "category", Str("Others"))
           amount == Get(t, "amount", Num(0)).v
       IN  IF ~IsDebit(t) THEN before
           ELSE IF \E i \in 1..Len(before) : before[i].cat = cat
           THEN [i \in 1..Len(before) |->
                   IF before[i].cat = cat
                   THEN [cat |-> cat, total |-> before[i].total + amount]
                   ELSE before[i]]
           ELSE Append(before, [cat |-> cat, total |-> amount])

\* sorted(items, key=lambda x: x[1], reverse=True): by total, the larger
\* first, items of equal total in the order they had.
RECURSIVE SortedByTotal(_)
SortedByTotal(items) ==
  IF items = <<>> THEN <<>>
  ELSE LET sorted == SortedByTotal(SubSeq(items, 1, Len(items) - 1))
           x == items[Len(items)]
           k == Cardinality({i \in 1..Len(sorted) : sorted[i].total >= x.total})
       IN  SubSeq(sorted, 1, k) \o <<x>> \o SubSeq(sorted, k + 1, Len(sorted))

\* The category breakdown that goes into the prompt: its lines as (category,
\* total) pairs, the fixed text when there are no transactions, or the
\* exception of the sum.
CategoryBreakdown(transactions) ==
  IF ~Truthy(transactions) THEN Str("No category data available")
  ELSE IF TotalsRaise(transactions) THEN Raised
  ELSE List(SortedByTotal(CategoryTotals(transactions.v)))

\* The try block up to the LLM call raises.
PromptRaises(transactions) ==
  Truthy(transactions) /\ (TotalsRaise(transactions) \/ SummaryRaises(transactions))

\* str.strip() of a text given as a sequence of tokens, Str(" ") its blanks.
RECURSIVE LStrip(_)
LStrip(text) ==
  IF text # <<>> /\ text[1] = Str(" ") THEN LStrip(Tail(text)) ELSE text
RECURSIVE RStrip(_)
RStrip(text) ==
  IF text # <<>> /\ text[Len(text)] = Str(" ")
  THEN RStrip(SubSeq(text, 1, Len(text) - 1)) ELSE text
Strip(text) == RStrip(LStrip(text))

\* The fallback reading the total with summary['total_spent'].
DailyFallback_Subscript(summary) ==
  IF summary.total_spent = Absent THEN Raised
  ELSE [kind |-> "fallback",
        text |-> <<Str("Today you spent Rs"), summary.total_spent, Str(" across "),
                   Get(summary, "transaction_count", Num(0)), Str(" transactions.")>>]

\* The except branch of generate_daily_insight: the templated sentence, the
\* numbers rendered in place.
DailyFallback(summary) ==
  [kind |-> "fallback",
   text |-> <<Str("Today you spent Rs"), Get(summary, "total_spent", Num(0)),
              Str(" across "), Get(summary, "transaction_count", Num(0)),
              Str(" transactions.")>>]

\* The except branch of generate_monthly_insight.
MonthlyFallback(summary) ==
  [kind |-> "fallback",
   text |-> <<Str("This month you spent Rs"), Get(summary, "total_spent", Num(0)),
              Str(".")>>]

\* The calls of self.llm.invoke in one generate_daily_insight: the one that
\* follows the prompt, when building the prompt did not raise.
DailyInsightInvocations(transactions) == IF PromptRaises(transactions) THEN 0 ELSE 1

\* InsightGenerator.generate_daily_insight.
GenerateDailyInsight(summary, transactions, reply) ==
  IF PromptRaises(transactions) THEN DailyFallback(summary)
  ELSE IF reply.kind = "error" THEN DailyFallback(summary)
  ELSE [kind |-> "llm", text |-> Strip(reply.text)]

\* InsightGenerator.generate_monthly_insight; category_breakdown is None or a
\* dict of category totals, here the list of its values.
GenerateMonthlyInsight(summary, category_breakdown, reply) ==
  IF Truthy(category_breakdown)
     /\ \E i \in 1..Len(category_breakdown.v) : ~IsNum(category_breakdown.v[i])
  THEN MonthlyFallback(summary)
  ELSE IF reply.kind = "error" THEN MonthlyFallback(summary)
  ELSE [kind |-> "llm", text |-> Strip(reply.text)]

\* -------------------------------------------------- gmail_service.py
\* A Python bool.
Bool(b) == [k |-> "bool", v |-> b]

\* base64.urlsafe_b64decode(data) for a str given as a sequence of characters
\* of the URL-safe alphabet and "=": each group of four characters is three
\* bytes, less one for each "=" that ends it; a length that is no multiple of
\* four raises binascii.Error (incorrect padding).
B64Chars ==
  <<"A", "B", "C", "D", "E", "F", "G", "H", "I", "J", "K", "L", "M",
    "N", "O", "P", "Q", "R", "S", "T", "U", "V", "W", "X", "Y", "Z",
    "a", "b", "c", "d", "e", "f", "g", "h", "i", "j", "k", "l", "m",
    "n", "o", "p", "q", "r", "s", "t", "u", "v", "w", "x", "y", "z",
    "0", "1", "2", "3", "4", "5", "6", "7", "8", "9", "-", "_">>
B64Index(c) == (CHOOSE i \in 1..Len(B64Chars) : B64Chars[i] = c) - 1

B64Group(g) ==
  LET pad == IF g[3] = "=" THEN 2 ELSE IF g[4] = "=" THEN 1 ELSE 0
      sextet(i) == IF g[i] = "=" THEN 0 ELSE B64Index(g[i])
      n == ((sextet(1) * 64 + sextet(2)) * 64 + sextet(3)) * 64 + sextet(4)
  IN  SubSeq(<<n \div 65536, (n \div 256) % 256, n % 256>>, 1, 3 - pad)

RECURSIVE B64Bytes(_)
B64Bytes(cs) ==
  IF cs = <<>> THEN <<>>
  ELSE B64Group(SubSeq(cs, 1, 4)) \o B64Bytes(SubSeq(cs, 5, Len(cs)))

UrlsafeB64Decode(cs) ==
  IF Len(cs) % 4 # 0 THEN Raised ELSE [k |-> "bytes", v |-> B64Bytes(cs)]

\* bytes.decode('utf-8'): the text as a sequence of code points, for the forms
\* of one, two and three bytes; a byte that starts no such form, or a form cut
\* short, raises UnicodeDecodeError.
IsContinuation(b) == b \in 128..191

RECURSIVE Utf8Decode(_)
Utf8Decode(bs) ==
  LET form == IF bs[1] < 128 THEN 1
              ELSE IF bs[1] \in 194..223 THEN 2
              ELSE IF bs[1] \in 224..239 THEN 3
              ELSE 0
      point == IF form = 1 THEN bs[1]
               ELSE IF form = 2 THEN (bs[1] - 192) * 64 + (bs[2] - 128)
               ELSE (bs[1] - 224) * 4096 + (bs[2] - 128) * 64 + (bs[3] - 128)
  IN  IF bs = <<>> THEN Str(<<>>)
      ELSE IF form = 0 \/ Len(bs) < form THEN Raised
      ELSE IF \E i \in 2..form : ~IsContinuation(bs[i]) THEN Raised
      ELSE LET rest == Utf8Decode(SubSeq(bs, form + 1, Len(bs)))
           IN  IF rest = Raised THEN Raised ELSE Str(<<point>> \o rest.v)

\* base64.urlsafe_b64decode(data).decode('utf-8')
DecodeData(data) ==
  LET raw == UrlsafeB64Decode(data.v)
  IN  IF raw = Raised THEN Raised ELSE Utf8Decode(raw.v)

\* A payload or part: its mimeType, body.data (Absent: the body has no 'data'
\* key) and parts (Absent: no 'parts' key).
Part(mimeType, data, parts) == [mimeType |-> mimeType, data |-> data, parts |-> parts]
HasData(payload) == payload.data # Absent /\ payload.data.v # <<>>

\* The for loop over payload['parts']: the first part whose mimeType is
\* text/plain and whose body holds 'data' is decoded and ends the loop.
RECURSIVE FirstPlainChild(_)
FirstPlainChild(parts) ==
  IF parts = <<>> THEN Str(<<>>)
  ELSE IF Head(parts).mimeType = "text/plain" /\ Head(parts).data # Absent
       THEN DecodeData(Head(parts).data)
       ELSE FirstPlainChild(Tail(parts))

\* GmailService._get_message_body
GetMessageBody(payload) ==
  IF HasData(payload) THEN DecodeData(payload.data)
  ELSE IF payload.parts # Absent THEN FirstPlainChild(payload.parts.v)
  ELSE Str(<<>>)

\* The loop of get_unread_emails over the listed ids. fetch[id] is what the
\* messages().get request of _get_message_details does for the id: "ok",
\* "http_error" (HttpError: _get_message_details returns None and the id is
\* left out) or "other_error" (another exception, which nothing catches).
RECURSIVE FetchDetails(_, _)
FetchDetails(ids, fetch) ==
  IF ids = <<>> THEN List(<<>>)
  ELSE IF fetch[Head(ids)] = "other_error" THEN Raised
  ELSE LET rest == FetchDetails(Tail(ids), fetch)
       IN  IF rest = Raised THEN Raised
           ELSE IF fetch[Head(ids)] = "ok" THEN List(<<Head(ids)>> \o rest.v)
           ELSE rest

\* GmailService.get_unread_emails on a connected service. listing is the
\* answer of the messages().list request: an HttpError, or the ids listed.
\* The result is the list of the emails fetched, each named by its id.
GetUnreadEmails(listing, fetch) ==
  IF listing.kind = "http_error" THEN List(<<>>)
  ELSE IF listing.ids = <<>> THEN List(<<>>)
  ELSE FetchDetails(listing.ids, fetch)

\* GmailService.connect: build is what googleapiclient's build() does: "ok",
\* "http_error" (HttpError: connect returns False and self.service stays as
\* it was) or "other_error" (another exception, which nothing catches).
Connect(svc, build) ==
  IF build = "ok" THEN [service |-> [k |-> "service"], result |-> Bool(TRUE)]
  ELSE IF build = "http_error" THEN [service |-> svc, result |-> Bool(FALSE)]
  ELSE [service |-> svc, result |-> Raised]

\* get_unread_emails and get_all_emails, which differ in the query only: a
\* service that is not connected is connected first, and [] is returned when
\* connect returned False.
FetchEmails(svc, build, listing, fetch) ==
  LET c == IF svc = None THEN Connect(svc, build)
           ELSE [service |-> svc, result |-> Bool(TRUE)]
  IN  [service |-> c.service,
       result |-> IF c.result = Raised THEN Raised
                  ELSE IF c.result = Bool(FALSE) THEN List(<<>>)
                  ELSE GetUnreadEmails(listing, fetch)]

\* GmailService.mark_as_read. service is self.service (None before connect);
\* io is the answer of the modify request: "ok", "http_error" (HttpError) or
\* "other_error" (any other exception, which the except clause lets through).
MarkAsRead(service, io) ==
  IF service = None THEN Raised
  ELSE IF io = "ok" THEN Bool(TRUE)
  ELSE IF io = "http_error" THEN Bool(FALSE)
  ELSE Raised

\* ------------------------------------------------------ db/client.py
\* The transactions table is a bag of rows: a table has no order of its own,
\* and nothing in db/client.py keeps two rows from being equal.

\* A column of the payload: keys whose value is None are removed from the
\* payload, so the column is left NULL.
Column(v) == IF v = Absent THEN Null ELSE v

\* SupabaseClient.insert_transaction, the payload: the keys copied from the
\* transaction (lines 56-68); a column the payload does not name stays NULL.
InsertPayload(transaction_data) ==
  [amount |-> Column(transaction_data.amount),
   transaction_type |-> Column(transaction_data.transaction_type),
   to_merchant |-> Column(transaction_data.to),
   transaction_date |-> Column(transaction_data.date),
   transaction_timestamp |-> Column(transaction_data.timestamp),
   email_id |-> Column(transaction_data.email_id),
   category |-> Null,
   sub_category |-> Null,
   category_confidence |-> Null]

\* The insert done as a delete of the rows of the same email_id followed by
\* the insert: when the insert then fails, the rows are gone.
InsertTransaction_DeleteThenInsert(rows, transaction_data, io) ==
  LET payload == InsertPayload(transaction_data)
      kept == [r \in {x \in BagToSet(rows) : x.email_id # payload.email_id}
                 |-> CopiesIn(r, rows)]
  IN  IF io = "ok"
      THEN [rows |-> kept (+) SetToBag({payload}), result |-> payload]
      ELSE [rows |-> kept, result |-> None]

\* The insert keeping the row although the result came back empty.
InsertTransaction_StoresOnEmpty(rows, transaction_data, io) ==
  IF io \in {"ok", "empty"}
  THEN [rows |-> rows (+) SetToBag({InsertPayload(transaction_data)}),
        result |-> IF io = "ok" THEN InsertPayload(transaction_data) ELSE None]
  ELSE [rows |-> rows, result |-> None]

\* The insert returning the payload without the request being sent.
InsertTransaction_ReportsUnstored(rows, transaction_data, io) ==
  IF io = "ok"
  THEN [rows |-> rows, result |-> InsertPayload(transaction_data)]
  ELSE [rows |-> rows, result |-> None]

\* SupabaseClient.insert_transaction: what the table holds afterwards and what
\* the call returns. io is the store's answer: "ok" (the row is inserted and
\* returned), "empty" (no data in the result) or "error" (the call raised).
InsertTransaction(rows, transaction_data, io) ==
  IF io = "ok"
  THEN [rows |-> rows (+) SetToBag({InsertPayload(transaction_data)}),
        result |-> InsertPayload(transaction_data)]
  ELSE [rows |-> rows, result |-> None]

\* SupabaseClient.insert_transactions_batch: the table afterwards and the list
\* of inserted records; ios[i] is the store's answer to the i-th insert.
RECURSIVE InsertTransactionsBatch(_, _, _)
InsertTransactionsBatch(rows, transactions, ios) ==
  IF transactions = <<>> THEN [rows |-> rows, inserted |-> <<>>]
  ELSE LET n == Len(transactions)
           before == InsertTransactionsBatch(rows, SubSeq(transactions, 1, n - 1), ios)
           r == InsertTransaction(before.rows, transactions[n], ios[n])
       IN  [rows |-> r.rows,
            inserted |-> IF r.result # None THEN Append(before.inserted, r.result)
                         ELSE before.inserted]

\* SupabaseClient.get_transaction_by_email_id: a row with that email_id (the
\* first the store returns), or None when there is none or the query raised.
GetTransactionByEmailId(rows, email_id, io) ==
  IF io = "error" THEN None
  ELSE LET data == {r \in BagToSet(rows) : r.email_id = Num(email_id)}
       IN  IF data # {} THEN CHOOSE r \in data : TRUE ELSE None

\* ---------------------------------------------- db/client.py: analytics
\* For the summaries the table is given by its rows' kinds (type, amount,
\* date) and the number of rows of each kind: rows[i] rows of kinds[i].

\* get_transactions' default limit, and the limit get_monthly_summary passes.
DefaultLimit == 100
MonthlyLimit == 1000

\* The order of two strings of digits and "-", as the store compares a date
\* column with the bound of .gte / .lte.
CharOrd(c) == IF c = "-" THEN 0 ELSE 1 + DigitVal(c)
RECURSIVE StrLeq(_, _)
StrLeq(a, b) ==
  IF a = <<>> THEN TRUE
  ELSE IF b = <<>> THEN FALSE
  ELSE IF a[1] # b[1] THEN CharOrd(a[1]) < CharOrd(b[1])
  ELSE StrLeq(Tail(a), Tail(b))

\* f"{n}" and f"{n:02d}" for n >= 0.
RECURSIVE FormatInt(_)
FormatInt(n) ==
  IF n < 10 THEN <<Digits[n + 1]>> ELSE FormatInt(n \div 10) \o <<Digits[(n % 10) + 1]>>
Format02d(n) == IF n < 10 THEN <<"0">> \o FormatInt(n) ELSE FormatInt(n)

\* calendar.monthrange(year, month)[1]; IllegalMonthError outside 1..12.
MonthRange(year, month) ==
  LET leap == year % 4 = 0 /\ (year % 100 # 0 \/ year % 400 = 0)
  IN  IF month \notin 1..12 THEN Raised
      ELSE IF month = 2 THEN Num(IF leap THEN 29 ELSE 28)
      ELSE IF month \in {4, 6, 9, 11} THEN Num(30)
      ELSE Num(31)

\* sum(t['amount'] for t in transactions if t['transaction_type'] == type)
\* and len(transactions), for rows given by kind and number.
RECURSIVE SumAmounts(_, _, _, _)
SumAmounts(kinds, rows, type, i) ==
  IF i > Len(kinds) THEN 0
  ELSE (IF kinds[i].transaction_type = Str(type) THEN rows[i] * kinds[i].amount.v ELSE 0)
         + SumAmounts(kinds, rows, type, i + 1)
RECURSIVE CountRows(_, _)
CountRows(rows, i) == IF i > Len(rows) THEN 0 ELSE rows[i] + CountRows(rows, i + 1)

\* The rows a query .gte(start_date).lte(end_date).order(transaction_date,
\* desc).limit(limit) may return: the rows in the range, all of them when they
\* are no more than the limit, else the limit's number of them, a row of a
\* later date before any row of an earlier date and rows of one date in any
\* order. A result is given by the number of rows of each kind.
QueryResults(kinds, rows, start_date, end_date, limit) ==
  LET n == Len(kinds)
      inRange == [i \in 1..n |->
                    IF StrLeq(start_date, kinds[i].transaction_date.v)
                         /\ StrLeq(kinds[i].transaction_date.v, end_date)
                    THEN rows[i] ELSE 0]
      excess == IF CountRows(inRange, 1) > limit THEN CountRows(inRange, 1) - limit ELSE 0
      most == CHOOSE m \in {inRange[i] : i \in 2..n} : \A i \in 2..n : inRange[i] <= m
      cut == {d \in [2..n -> 0..Min(most, excess)] : \A i \in 2..n : d[i] <= inRange[i]}
      left(d) == [i \in 1..n |->
                    IF i = 1 THEN inRange[1] - (excess - CountRows([j \in 1..n - 1 |-> d[j + 1]], 1))
                    ELSE inRange[i] - d[i]]
      later(i, j) == ~StrLeq(kinds[i].transaction_date.v, kinds[j].transaction_date.v)
  IN  {left(d) : d \in {c \in cut :
         /\ left(c)[1] \in 0..inRange[1]
         /\ \A i \in 1..n : \A j \in 1..n :
              (later(i, j) /\ left(c)[j] > 0) => left(c)[i] = inRange[i]}}

\* SupabaseClient.get_transactions(start_date, end_date, limit): the rows the
\* query returned (fetched, one of QueryResults), or [] when it raised.
GetTransactions(fetched, io) ==
  IF io = "error" THEN [i \in DOMAIN fetched |-> 0] ELSE fetched

\* A float quotient a / b, kept exact.
Quotient(a, b) == [num |-> a, den |-> b]
EmptyDict == [k |-> "dict", empty |-> TRUE]

\* SupabaseClient.get_daily_summary(target_date)
GetDailySummary(kinds, target_date, fetched, io) ==
  LET transactions == GetTransactions(fetched, io)
      total_debit == SumAmounts(kinds, transactions, "debit", 1)
      total_credit == SumAmounts(kinds, transactions, "credit", 1)
  IN  [k |-> "dict", empty |-> FALSE,
       date |-> target_date,
       total_spent |-> total_debit,
       total_earned |-> total_credit,
       net |-> total_credit - total_debit,
       transaction_count |-> CountRows(transactions, 1),
       transactions |-> transactions]

\* The date range of get_monthly_summary(year, month), for a valid month.
MonthStart(year, month) == FormatInt(year) \o <<"-">> \o Format02d(month) \o <<"-", "0", "1">>
MonthEnd(year, month) ==
  FormatInt(year) \o <<"-">> \o Format02d(month) \o <<"-">> \o FormatInt(MonthRange(year, month).v)

\* SupabaseClient.get_monthly_summary(year, month)
GetMonthlySummary(kinds, year, month, fetched, io) ==
  IF MonthRange(year, month) = Raised THEN EmptyDict
  ELSE LET last_day == MonthRange(year, month).v
           transactions == GetTransactions(fetched, io)
           total_debit == SumAmounts(kinds, transactions, "debit", 1)
           total_credit == SumAmounts(kinds, transactions, "credit", 1)
       IN  [k |-> "dict", empty |-> FALSE,
            year |-> year,
            month |-> month,
            total_spent |-> total_debit,
            total_earned |-> total_credit,
            net |-> total_credit - total_debit,
            transaction_count |-> CountRows(transactions, 1),
            average_daily_spend |-> IF last_day # 0 THEN Quotient(total_debit, last_day)
                                    ELSE Quotient(0, 1)]

\* ------------------------------------------ the batch coordinator
\* process(messages): per message, in input order: extract, dedup lookup,
\* classify, commit, mark read. Each run keeps three counters.

VARIABLES
  store,     \* the transactions table
  pc,        \* per invocation: idle, extract, lookup, classify, commit, markread, done, aborted
  batch,     \* per invocation: the ids of the messages of the run, in input order
  idx,       \* per invocation: the position of the message being handled
  cur,       \* per invocation: the record of the message being handled
  counts,    \* per invocation: [inserted, skipped, failed]
  last,      \* per invocation: what happened to the message handled last
  runs,      \* the number of runs started
  okIds,     \* per invocation: the ids the run has inserted or skipped
  repeated,  \* per invocation: the run has the batch of the run before it
  prevOk,    \* per invocation: the ids the run before it inserted or skipped
  cancelledBefore, \* per invocation: the run before it was cancelled
  listed,    \* per invocation: the ids the mailbox listed for the run
  invocations \* per invocation: the calls of the extraction LLM in the run

pipeVars ==
  <<store, pc, batch, idx, cur, counts, last, runs, okIds, repeated, prevOk,
    cancelledBefore, listed, invocations>>

\* A single call of one function of the chains, outside any run.
VARIABLES
  call,   \* the function called and its arguments
  ret,    \* what it returned
  service \* GmailService.service: None until a connect succeeded

callVars == <<call, ret, service>>
vars == <<pipeVars, callVars>>

NoCall == [fn |-> "-"]

\* The message lists a run may be given: the mailbox lists each id once, in
\* one fixed order.
RECURSIVE SeqsOver(_, _)
SeqsOver(S, n) ==
  IF n = 0 THEN {<<>>}
  ELSE LET shorter == SeqsOver(S, n - 1)
       IN  shorter \cup
           {Append(q, x) : q \in {r \in shorter : Len(r) = n - 1}, x \in S}
Range(q) == {q[i] : i \in 1..Len(q)}
Batches ==
  {q \in SeqsOver(MsgIds, NumMsgs) :
     \A i \in 1..Len(q) : \A j \in 1..Len(q) : i < j => q[i] < q[j]}

\* The replies the extraction model gives in a run, and the classifier's.
ValidDebit ==
  [amount |-> Num(30), transaction_type |-> Str("debit"),
   date |-> IsoDate, timestamp |-> Str("2025-10-30 09:15:00"),
   to |-> Str("Deccan spice")]
ExtractReplies == {LlmError, LlmGarbage, LlmJson(ValidDebit)}
ClassifyReplies ==
  {LlmError,
   LlmJson([category |-> Str("Groceries"), sub_category |-> Absent,
            confidence |-> Num(90)])}

ZeroCounts == [inserted |-> 0, skipped |-> 0, failed |-> 0]
NoLast ==
  [id |-> 0, ext |-> "-", present |-> FALSE, look |-> "-", ins |-> "-",
   res |-> "-", before |-> ZeroCounts, trace |-> <<>>, mark |-> "-"]

\* The answers of the mailbox to a modify request, and the connected service.
MarkIo == {"ok", "http_error", "other_error"}
Service == [k |-> "service"]

\* The number of rows the table holds for a message id.
Copies(rows, id) ==
  LET data == {r \in BagToSet(rows) : r.email_id = Num(id)}
      RECURSIVE Sum(_)
      Sum(S) == IF S = {} THEN 0
                ELSE LET r == CHOOSE x \in S : TRUE
                     IN  CopiesIn(r, rows) + Sum(S \ {r})
  IN  Sum(data)
Present(rows, id) == Copies(rows, id) > 0

PipeInit ==
  /\ store = EmptyBag
  /\ pc = [p \in Procs |-> "idle"]
  /\ batch = [p \in Procs |-> <<>>]
  /\ idx = [p \in Procs |-> 1]
  /\ cur = [p \in Procs |-> None]
  /\ counts = [p \in Procs |-> ZeroCounts]
  /\ last = [p \in Procs |-> NoLast]
  /\ runs = 0
  /\ okIds = [p \in Procs |-> {}]
  /\ repeated = [p \in Procs |-> FALSE]
  /\ prevOk = [p \in Procs |-> {}]
  /\ cancelledBefore = [p \in Procs |-> FALSE]
  /\ listed = [p \in Procs |-> <<>>]
  /\ invocations = [p \in Procs |-> 0]

\* The loop going on to the message after the next.
Finish_SkipsAhead(p, res) ==
  /\ counts' = [counts EXCEPT ![p][res] = @ + 1]
  /\ idx' = [idx EXCEPT ![p] = @ + 2]
  /\ pc' = [pc EXCEPT ![p] = IF idx[p] + 1 >= Len(batch[p]) THEN "done" ELSE "extract"]
  /\ okIds' = [okIds EXCEPT ![p] =
                 IF res = "failed" THEN @ ELSE @ \cup {batch[p][idx[p]]}]

\* The message at position idx has its counter: go on to the next, or return.
Finish(p, res) ==
  /\ counts' = [counts EXCEPT ![p][res] = @ + 1]
  /\ idx' = [idx EXCEPT ![p] = @ + 1]
  /\ pc' = [pc EXCEPT ![p] = IF idx[p] = Len(batch[p]) THEN "done" ELSE "extract"]
  /\ okIds' = [okIds EXCEPT ![p] =
                 IF res = "failed" THEN @ ELSE @ \cup {batch[p][idx[p]]}]

\* An exception leaves the loop: the run ends without a result.
Abort(p) ==
  /\ pc' = [pc EXCEPT ![p] = "aborted"]
  /\ UNCHANGED <<counts, idx, okIds>>

\* A run begins over the messages b, of the ids l that the mailbox listed.
Begin(p, b, l) ==
  /\ pc[p] \in {"idle", "done", "cancelled", "aborted"}
  /\ runs < MaxRuns
  /\ runs' = runs + 1
  /\ batch' = [batch EXCEPT ![p] = b]
  /\ idx' = [idx EXCEPT ![p] = 1]
  /\ cur' = [cur EXCEPT ![p] = None]
  /\ counts' = [counts EXCEPT ![p] = ZeroCounts]
  /\ last' = [last EXCEPT ![p] = NoLast]
  /\ okIds' = [okIds EXCEPT ![p] = {}]
  /\ repeated' = [repeated EXCEPT ![p] =
                     (pc[p] \in {"done", "cancelled"} /\ b = batch[p])]
  /\ prevOk' = [prevOk EXCEPT ![p] = okIds[p]]
  /\ cancelledBefore' = [cancelledBefore EXCEPT ![p] = (pc[p] = "cancelled")]
  /\ pc' = [pc EXCEPT ![p] = IF b = <<>> THEN "done" ELSE "extract"]
  /\ listed' = [listed EXCEPT ![p] = l]
  /\ invocations' = [invocations EXCEPT ![p] = 0]
  /\ UNCHANGED <<store, callVars>>

\* process(messages) on the messages it is given.
Start(p, b) == Begin(p, b, b)

\* The outcomes of the messages().get requests of one fetch.
FetchOutcomes == [MsgIds -> {"ok", "http_error", "other_error"}]

\* runExtractionBatch(filter): the mailbox lists ids, get_unread_emails fetches
\* them, and process runs over the emails it returns. An exception out of
\* get_unread_emails ends the call before any message is processed.
FetchStart(p, ids, fetch) ==
  LET emails == GetUnreadEmails([kind |-> "ok", ids |-> ids], fetch)
  IN  IF emails = Raised
      THEN /\ pc[p] \in {"idle", "done", "cancelled", "aborted"}
           /\ runs < MaxRuns
           /\ runs' = runs + 1
           /\ pc' = [pc EXCEPT ![p] = "aborted"]
           /\ UNCHANGED <<store, batch, idx, cur, counts, last, okIds, repeated,
                          prevOk, cancelledBefore, listed, invocations, callVars>>
      ELSE Begin(p, emails.v, ids)

\* What the extraction model answered: the call failed ("error"), the text is
\* not a record of the schema ("malformed"), or it is one ("ok").
ReplyKind(resp) ==
  IF resp.kind = "error" THEN "error"
  ELSE IF resp.json = None THEN "malformed"
  ELSE IF ~TransactionDataValid(resp.json) THEN "malformed"
  ELSE "ok"

\* Steps 1-2: the text of the message goes to the extraction model.
Extract(p, resp) ==
  /\ pc[p] = "extract"
  /\ LET id == batch[p][idx[p]]
         parsed == ParseEmailBatchStep(id, resp)
         seen == [NoLast EXCEPT !.id = id, !.before = counts[p],
                                !.trace = <<"extract">>,
                                !.ext = ReplyKind(resp)]
     IN  IF parsed = Raised
         THEN /\ Abort(p)
              /\ UNCHANGED <<cur, last>>
         ELSE IF parsed = None
         THEN /\ Finish(p, "failed")
              /\ last' = [last EXCEPT ![p] = [seen EXCEPT !.res = "failed"]]
              /\ UNCHANGED cur
         ELSE /\ cur' = [cur EXCEPT ![p] = parsed]
              /\ last' = [last EXCEPT ![p] = seen]
              /\ pc' = [pc EXCEPT ![p] = "lookup"]
              /\ UNCHANGED <<counts, idx, okIds>>
  /\ invocations' = [invocations EXCEPT ![p] = @ + ParseEmailInvocations(resp)]
  /\ UNCHANGED <<store, batch, runs, repeated, prevOk,
               cancelledBefore, listed, callVars>>

\* Step 3: the dedup lookup by the id of the source message.
Lookup(p, io) ==
  /\ pc[p] = "lookup"
  /\ LET id == batch[p][idx[p]]
         existing == GetTransactionByEmailId(store, id, io)
         seen == [last[p] EXCEPT !.present = Present(store, id),
                                 !.trace = Append(@, "lookup"),
                                 !.look = IF io = "error" THEN "error"
                                          ELSE IF existing = None THEN "miss"
                                          ELSE "hit"]
     IN  IF existing = Raised
         THEN /\ Abort(p)
              /\ UNCHANGED last
         ELSE IF existing # None
         THEN /\ Finish(p, "skipped")
              /\ last' = [last EXCEPT ![p] = [seen EXCEPT !.res = "skipped"]]
         ELSE /\ last' = [last EXCEPT ![p] = seen]
              /\ pc' = [pc EXCEPT ![p] = "classify"]
              /\ UNCHANGED <<counts, idx, okIds>>
  /\ UNCHANGED <<store, batch, cur, runs, repeated, prevOk,
               cancelledBefore, listed, invocations, callVars>>

\* Step 4: the category is attached to the record.
Classify(p, resp) ==
  /\ pc[p] = "classify"
  /\ LET categorized == CategorizeBatchStep(cur[p], resp)
     IN  IF categorized = Raised
         THEN /\ Abort(p)
              /\ UNCHANGED cur
         ELSE /\ cur' = [cur EXCEPT ![p] = categorized]
              /\ pc' = [pc EXCEPT ![p] = "commit"]
              /\ UNCHANGED <<counts, idx, okIds>>
  /\ last' = [last EXCEPT ![p].trace = Append(@, "classify")]
  /\ UNCHANGED <<store, batch, runs, repeated, prevOk,
               cancelledBefore, listed, invocations, callVars>>

\* Step 5: one insert; a failed insert is counted and not retried.
Commit(p, io) ==
  /\ pc[p] = "commit"
  /\ LET r == InsertTransaction(store, cur[p], io)
     IN  /\ store' = r.rows
         /\ IF r.result = None
            THEN /\ Finish(p, "failed")
                 /\ last' = [last EXCEPT ![p] =
                               [@ EXCEPT !.ins = io, !.res = "failed",
                                         !.trace = Append(@, "commit")]]
            ELSE /\ last' = [last EXCEPT ![p] =
                               [@ EXCEPT !.ins = io, !.trace = Append(@, "commit")]]
                 /\ pc' = [pc EXCEPT ![p] = "markread"]
                 /\ UNCHANGED <<counts, idx, okIds>>
  /\ UNCHANGED <<batch, cur, runs, repeated, prevOk,
               cancelledBefore, listed, invocations, callVars>>

\* Step 6: the message is marked read, best effort: whatever mark_as_read
\* answers, the record stays and the message is counted inserted.
MarkRead(p, io) ==
  /\ pc[p] = "markread"
  /\ LET marked == MarkAsRead(Service, io)
     IN  last' = [last EXCEPT ![p] =
                    [@ EXCEPT !.res = "inserted",
                              !.trace = Append(@, "markread"),
                              !.mark = IF marked = Raised THEN "raised"
                                       ELSE IF marked.v THEN "ok" ELSE "false"]]
  /\ Finish(p, "inserted")
  /\ UNCHANGED <<store, batch, cur, runs, repeated, prevOk,
               cancelledBefore, listed, invocations, callVars>>

\* The caller cancels the run: the loop stops where it is.
Cancel(p) ==
  /\ pc[p] \in {"extract", "lookup", "classify", "commit", "markread"}
  /\ pc' = [pc EXCEPT ![p] = "cancelled"]
  /\ UNCHANGED <<store, batch, idx, cur, counts, last, runs, okIds, repeated,
                 prevOk, cancelledBefore, listed, invocations, callVars>>

Step(p) ==
  \/ \E b \in Batches : Start(p, b)
  \/ \E resp \in ExtractReplies : Extract(p, resp)
  \/ \E io \in {"ok", "error"} : Lookup(p, io)
  \/ \E resp \in ClassifyReplies : Classify(p, resp)
  \/ \E io \in {"ok", "empty", "error"} : Commit(p, io)
  \/ \E io \in MarkIo : MarkRead(p, io)

\* Two invocations at once, their steps interleaved; the store answers every
\* dedup query.
ConcStep(p) ==
  \/ \E b \in Batches : Start(p, b)
  \/ \E resp \in ExtractReplies : Extract(p, resp)
  \/ Lookup(p, "ok")
  \/ \E resp \in ClassifyReplies : Classify(p, resp)
  \/ \E io \in {"ok", "empty", "error"} : Commit(p, io)
  \/ \E io \in MarkIo : MarkRead(p, io)

\* ------------------------------------------------ single calls
\* One call of one function, on inputs drawn from the sets below.

\* What the extraction model may answer.
ExtractObjects ==
  [amount : {Num(0 - 5), Num(0), Num(30), Str(<<"3", "0">>), Str(<<"-", "5">>),
             Str(<<"R", "s", ".", "3", "0">>), Null, Absent},
   transaction_type : {Str("debit"), Str("credit"), Str("refund"), Str("Debit"),
                       Null, Absent},
   date : {IsoDate, ShortDate, Null},
   timestamp : {Str("2025-10-30 09:15:00"), Absent},
   to : {Str("Deccan spice"), Absent}]
AllExtractReplies == {LlmError, LlmGarbage} \cup {LlmJson(o) : o \in ExtractObjects}

\* What the classifier model may answer.
CategoryValues ==
  {Str(CATEGORIES[i]) : i \in 1..Len(CATEGORIES)}
    \cup {Str("Misc"), Str("groceries"), Null, Absent}
CategoryObjects ==
  [category : CategoryValues,
   sub_category : {Absent, Null, Str("UPI")},
   confidence : {Absent, Num(90), Num(150), Null}]
AllClassifyReplies == {LlmError, LlmGarbage} \cup {LlmJson(o) : o \in CategoryObjects}
ParsedTransactions ==
  {ParseEmailBatchStep(1, LlmJson(ValidDebit)),
   ParseEmailBatchStep(2, LlmJson([ValidDebit EXCEPT !.transaction_type = Str("credit"),
                                                      !.to = Absent]))}

\* The arguments of the insight calls.
Summaries ==
  [total_spent : {Num(0), Num(500), Absent},
   transaction_count : {Num(3), Absent}]
InsightTransactions ==
  [transaction_type : {Str("debit"), Str("credit")},
   category : {Str("Groceries"), Null, Absent},
   amount : {Num(30), Num(50), Null},
   to_merchant : {Str("Deccan spice"), Null}]
    \cup {[transaction_type |-> Absent, category |-> Absent, amount |-> Absent,
           to_merchant |-> Absent]}
TransactionLists == {None} \cup {List(q) : q \in SeqsOver(InsightTransactions, MaxTxns)}
Breakdowns ==
  {None, List(<<>>), List(<<Num(30)>>), List(<<Num(30), Num(500)>>), List(<<Null>>)}
InsightReplies ==
  {[kind |-> "error", text |-> <<>>],
   [kind |-> "text", text |-> <<Str(" "), Str("Nice day."), Str(" ")>>],
   [kind |-> "text", text |-> <<Str("Spent"), Str(" "), Str("little.")>>]}

CallsInit == PipeInit /\ call = NoCall /\ ret = NoCall /\ service = None

CallParseEmail(resp) ==
  /\ call = NoCall
  /\ call' = [fn |-> "parse_email", resp |-> resp]
  /\ ret' = ParseEmail(resp)
  /\ UNCHANGED <<pipeVars, service>>

CallCategorize(transaction, resp) ==
  /\ call = NoCall
  /\ call' = [fn |-> "categorize", transaction |-> transaction, resp |-> resp]
  /\ ret' = CategorizeBatchStep(transaction, resp)
  /\ UNCHANGED <<pipeVars, service>>

CallDailyInsight(summary, transactions, reply) ==
  /\ call = NoCall
  /\ call' = [fn |-> "daily_insight", summary |-> summary,
              transactions |-> transactions, reply |-> reply]
  /\ ret' = GenerateDailyInsight(summary, transactions, reply)
  /\ UNCHANGED <<pipeVars, service>>

CallMonthlyInsight(summary, breakdown, reply) ==
  /\ call = NoCall
  /\ call' = [fn |-> "monthly_insight", summary |-> summary,
              breakdown |-> breakdown, reply |-> reply]
  /\ ret' = GenerateMonthlyInsight(summary, breakdown, reply)
  /\ UNCHANGED <<pipeVars, service>>

\* The batch path: parse_email_batch over the emails, then
\* insert_transactions_batch of what it returned, on an empty table.
CallBatchPath(emails, resps, ios) ==
  /\ call = NoCall
  /\ call' = [fn |-> "batch_path", emails |-> emails, resps |-> resps, ios |-> ios]
  /\ ret' = LET parsed == ParseEmailBatch(emails, resps)
                done == InsertTransactionsBatch(EmptyBag, parsed, ios)
            IN  [k |-> "batch", parsed |-> parsed, rows |-> done.rows,
                 inserted |-> done.inserted]
  /\ UNCHANGED <<pipeVars, service>>

CallsNext ==
  \/ call = NoCall /\ \E emails \in Batches, resps \in [MsgIds -> ExtractReplies],
                          ios \in [MsgIds -> {"ok", "empty", "error"}] :
       CallBatchPath(emails, resps, ios)
  \/ call = NoCall /\ \E resp \in AllExtractReplies : CallParseEmail(resp)
  \/ call = NoCall /\ \E t \in ParsedTransactions, resp \in AllClassifyReplies :
       CallCategorize(t, resp)
  \/ call = NoCall /\ \E s \in Summaries, ts \in TransactionLists, reply \in InsightReplies :
       CallDailyInsight(s, ts, reply)
  \/ call = NoCall /\ \E s \in Summaries, b \in Breakdowns, reply \in InsightReplies :
       CallMonthlyInsight(s, b, reply)
SpecCalls == CallsInit /\ [][CallsNext]_vars

\* One call of the body decoding, alone or followed by the extraction.
MaxParts == 2

\* "Hi", the rupee sign, "<b>", and a byte that is no UTF-8.
DataHi == Str(<<"S", "G", "k", "=">>)
DataRupee == Str(<<"4", "o", "K", "5">>)
DataHtml == Str(<<"P", "G", "I", "-">>)
DataNotUtf8 == Str(<<"_", "w", "=", "=">>)
DataCut == Str(<<"S", "G", "k">>)

Leaves ==
  {Part("text/plain", DataHi, Absent), Part("text/plain", DataRupee, Absent),
   Part("text/html", DataHtml, Absent), Part("text/plain", Absent, Absent)}
BrokenLeaves ==
  {Part("text/plain", DataNotUtf8, Absent), Part("text/plain", DataCut, Absent),
   Part("text/plain", Str(<<>>), Absent)}
Multipart(parts) == Part("multipart/mixed", Absent, List(parts))
PartLists(S) == SeqsOver(S, MaxParts) \ {<<>>}
FlatPayloads == Leaves \cup {Multipart(q) : q \in PartLists(Leaves)}
Payloads == FlatPayloads \cup BrokenLeaves \cup {Multipart(q) : q \in PartLists(FlatPayloads)}

CallGetMessageBody(payload) ==
  /\ call = NoCall
  /\ call' = [fn |-> "get_message_body", payload |-> payload]
  /\ ret' = GetMessageBody(payload)
  /\ UNCHANGED <<pipeVars, service>>

\* _get_message_details puts the decoded body into the email, and
\* parse_email_batch (use_snippet=False) extracts from the email's body.
CallParseMessage(payload, resp) ==
  /\ call = NoCall
  /\ call' = [fn |-> "parse_message", payload |-> payload, resp |-> resp]
  /\ ret' = LET body == GetMessageBody(payload)
            IN  IF body = Raised THEN Raised
                ELSE [k |-> "parsed", body |-> body, parsed |-> ParseEmailBatchStep(1, resp)]
  /\ UNCHANGED <<pipeVars, service>>

MailNext ==
  \/ call = NoCall /\ \E payload \in Payloads : CallGetMessageBody(payload)
  \/ call = NoCall /\ \E payload \in FlatPayloads \cup BrokenLeaves, resp \in ExtractReplies :
       CallParseMessage(payload, resp)
SpecMail == CallsInit /\ [][MailNext]_vars

\* One call of a summary, on a table of the kinds below.
MaxFew == 1

\* The kinds of rows: on 2025-10-30 a debit, a credit and a row that is
\* neither (parse_email accepts any string as the type); a debit earlier in
\* the month; a debit on 2024-02-29.
Kinds ==
  <<[transaction_type |-> Str("debit"), amount |-> Num(30), transaction_date |-> IsoDate],
    [transaction_type |-> Str("credit"), amount |-> Num(50), transaction_date |-> IsoDate],
    [transaction_type |-> Str("refund"), amount |-> Num(20), transaction_date |-> IsoDate],
    [transaction_type |-> Str("debit"), amount |-> Num(40),
     transaction_date |-> Date(<<"2", "0", "2", "5", "-", "1", "0", "-", "0", "2">>)],
    [transaction_type |-> Str("debit"), amount |-> Num(70),
     transaction_date |-> Date(<<"2", "0", "2", "4", "-", "0", "2", "-", "2", "9">>)]>>
Tables ==
  {[i \in 1..Len(Kinds) |-> IF i = 1 THEN many ELSE few[i]] :
     many \in {0, 1, DefaultLimit, DefaultLimit + 1, MonthlyLimit, MonthlyLimit + 1},
     few \in [2..Len(Kinds) -> 0..MaxFew]}
Days == {Kinds[1].transaction_date.v, Kinds[4].transaction_date.v}
Months == {<<2025, 10>>, <<2025, 2>>, <<2024, 2>>, <<2025, 11>>, <<2025, 13>>}

CallDailySummary(table, target_date, io) ==
  /\ call = NoCall
  /\ \E fetched \in QueryResults(Kinds, table, target_date, target_date, DefaultLimit) :
       /\ call' = [fn |-> "daily_summary", table |-> table, target_date |-> target_date,
                   io |-> io, fetched |-> fetched]
       /\ ret' = GetDailySummary(Kinds, target_date, fetched, io)
  /\ UNCHANGED <<pipeVars, service>>

CallMonthlySummary(table, year, month, io) ==
  /\ call = NoCall
  /\ \E fetched \in IF MonthRange(year, month) = Raised THEN {table}
                     ELSE QueryResults(Kinds, table, MonthStart(year, month),
                                       MonthEnd(year, month), MonthlyLimit) :
       /\ call' = [fn |-> "monthly_summary", table |-> table, year |-> year,
                   month |-> month, io |-> io, fetched |-> fetched]
       /\ ret' = GetMonthlySummary(Kinds, year, month, fetched, io)
  /\ UNCHANGED <<pipeVars, service>>

SummaryNext ==
  \/ call = NoCall /\ \E table \in Tables, d \in Days, io \in {"ok", "error"} :
       CallDailySummary(table, d, io)
  \/ call = NoCall /\ \E table \in Tables, ym \in Months, io \in {"ok", "error"} :
       CallMonthlySummary(table, ym[1], ym[2], io)
SpecSummary == CallsInit /\ [][SummaryNext]_vars

\* Calls of the mailbox operations on one GmailService, in any order.
Listings == {[kind |-> "http_error", ids |-> <<>>]} \cup {[kind |-> "ok", ids |-> b] : b \in Batches}
Builds == {"ok", "http_error", "other_error"}

CallGetUnreadEmails(build, listing, fetch) ==
  /\ call' = [fn |-> "get_unread_emails", service |-> service, build |-> build,
              listing |-> listing, fetch |-> fetch]
  /\ ret' = FetchEmails(service, build, listing, fetch).result
  /\ service' = FetchEmails(service, build, listing, fetch).service
  /\ UNCHANGED pipeVars

CallGetAllEmails(build, listing, fetch) ==
  /\ call' = [fn |-> "get_all_emails", service |-> service, build |-> build,
              listing |-> listing, fetch |-> fetch]
  /\ ret' = FetchEmails(service, build, listing, fetch).result
  /\ service' = FetchEmails(service, build, listing, fetch).service
  /\ UNCHANGED pipeVars

CallMarkAsRead(io) ==
  /\ call' = [fn |-> "mark_as_read", service |-> service, io |-> io]
  /\ ret' = MarkAsRead(service, io)
  /\ UNCHANGED <<pipeVars, service>>

MailboxNext ==
  \/ \E io \in MarkIo : CallMarkAsRead(io)
  \/ \E build \in Builds, listing \in Listings, fetch \in FetchOutcomes :
       CallGetUnreadEmails(build, listing, fetch)
  \/ \E build \in Builds, listing \in Listings, fetch \in FetchOutcomes :
       CallGetAllEmails(build, listing, fetch)
SpecMailbox == CallsInit /\ [][MailboxNext]_vars

\* Runs one after the other: a single invocation at a time.
Init == PipeInit /\ call = NoCall /\ ret = NoCall /\ service = None
Next == Step(1)
Spec == Init /\ [][Next]_vars

ConcNext == \E p \in Procs : ConcStep(p)
SpecConc == Init /\ [][ConcNext]_vars

\* Sequential runs, each over the emails fetched from the mailbox.
FetchStep(p) ==
  \/ \E ids \in Batches, fetch \in FetchOutcomes : FetchStart(p, ids, fetch)
  \/ \E resp \in ExtractReplies : Extract(p, resp)
  \/ \E io \in {"ok", "error"} : Lookup(p, io)
  \/ \E resp \in ClassifyReplies : Classify(p, resp)
  \/ \E io \in {"ok", "empty", "error"} : Commit(p, io)
  \/ \E io \in MarkIo : MarkRead(p, io)
FetchNext == FetchStep(1)
SpecFetch == Init /\ [][FetchNext]_vars

\* Sequential runs that the caller may cancel.
CancelNext == Step(1) \/ Cancel(1)
SpecCancel == Init /\ [][CancelNext]_vars

\* ------------------------------------------------------------ claims
Working == {"extract", "lookup", "classify", "commit", "markread"}
Handled(p) == last[p].res # "-"
Bump(c, res) == [c EXCEPT ![res] = @ + 1]

\* C1: a run over the batch of the run before it inserts nothing and counts
\* every message as skipped. Stated for the runs the claim is most plainly
\* about: the earlier run inserted or skipped every message of the batch, and
\* the second run counted no message as failed.
C1_SecondRunAllSkipped ==
  (pc[1] = "done" /\ repeated[1] /\ prevOk[1] = Range(batch[1])
     /\ counts[1].failed = 0) =>
    (counts[1].inserted = 0 /\ counts[1].skipped = Len(batch[1]))

\* What does hold of a second run: every message that the earlier run inserted
\* or skipped is in the store when it is looked up, and is counted as skipped
\* whenever the lookup returns.
SecondRunSkipsCommitted ==
  (repeated[1] /\ last[1].id \in prevOk[1] /\ last[1].look # "-") =>
    /\ last[1].present
    /\ last[1].look # "error" => (last[1].look = "hit" /\ last[1].res = "skipped")

\* A second run over the same two or more messages, all of them committed by
\* the first, that counted every message as skipped.
SecondRunAllSkippedReached ==
  /\ pc[1] = "done" /\ repeated[1]
  /\ Len(batch[1]) >= 2
  /\ prevOk[1] = Range(batch[1])
  /\ counts[1] = [inserted |-> 0, skipped |-> Len(batch[1]), failed |-> 0]

\* C2: the store holds at most one record per source message id, in every
\* state that sequential runs reach.
C2_StoreUnique == \A id \in MsgIds : Copies(store, id) <= 1

\* C3: with two invocations interleaved, no state holds two records with the
\* same source message id.
C3_ConcurrentUnique ==
  ~(\E id \in MsgIds : Copies(store, id) >= 2)

\* C4: a message extracted and already in the store is skipped, a
\* malformed reply is failed, a message extracted, not in the store and
\* inserted is inserted; each moves exactly one counter by one.
C4_Classification ==
  Handled(1) =>
    /\ counts[1] = Bump(last[1].before, last[1].res)
    /\ (last[1].ext = "ok" /\ last[1].present) => last[1].res = "skipped"
    /\ last[1].ext = "malformed" => last[1].res = "failed"
    /\ (last[1].ext = "ok" /\ ~last[1].present /\ last[1].ins = "ok")
         => last[1].res = "inserted"

\* What does hold: the same, the first case only when the dedup lookup returns.
ClassificationWhenLookupReturns ==
  Handled(1) =>
    /\ counts[1] = Bump(last[1].before, last[1].res)
    /\ (last[1].ext = "ok" /\ last[1].present /\ last[1].look # "error")
         => last[1].res = "skipped"
    /\ last[1].ext = "malformed" => last[1].res = "failed"
    /\ (last[1].ext = "ok" /\ ~last[1].present /\ last[1].ins = "ok")
         => last[1].res = "inserted"

\* C4 scenario: a batch of three, one message already in the store, one new
\* and valid, the last with a malformed reply, returning {1, 1, 1}.
C4_Scenario ==
  /\ pc[1] = "done" /\ Len(batch[1]) = 3
  /\ counts[1] = [inserted |-> 1, skipped |-> 1, failed |-> 1]
  /\ last[1].ext = "malformed" /\ last[1].res = "failed"
  /\ \A id \in MsgIds : Copies(store, id) <= 1

\* C5: a failed extraction or insert never ends the run: the run goes on to
\* the next message and ends with a count for every message.
C5_NoAbort ==
  /\ pc[1] # "aborted"
  /\ pc[1] \in Working => (idx[1] <= Len(batch[1]) /\ ENABLED Next)
  /\ (Handled(1) /\ last[1].res = "failed" /\ pc[1] # "done")
       => (pc[1] = "extract" /\ batch[1][idx[1] - 1] = last[1].id)
  /\ pc[1] = "done" =>
       /\ idx[1] = Len(batch[1]) + 1
       /\ counts[1].inserted + counts[1].skipped + counts[1].failed = Len(batch[1])

\* C5 witness: a run of three whose first two messages failed and whose third
\* was then inserted.
C5_Witness ==
  /\ pc[1] = "done" /\ Len(batch[1]) = 3
  /\ counts[1] = [inserted |-> 1, skipped |-> 0, failed |-> 2]
  /\ last[1].id = batch[1][3] /\ last[1].res = "inserted"

\* C10: the row committed for a record holds the category, sub-category and
\* confidence attached to the record before the insert, and the category is
\* not null.
C10_CategoryStored ==
  pc[1] = "markread" =>
    /\ IsStr(cur[1].category)
    /\ \E r \in BagToSet(store) :
         /\ r.email_id = cur[1].email_id
         /\ r.category = cur[1].category
         /\ r.sub_category = cur[1].sub_category
         /\ r.category_confidence = cur[1].category_confidence

C7_ClosedCategorySet ==
  call.fn = "categorize" =>
    \E i \in 1..Len(CATEGORIES) : ret.category = Str(CATEGORIES[i])

\* C8: extraction yields a record only with amount >= 0 and a transaction
\* type of exactly "credit" or "debit".
C8_ExtractionValid ==
  (call.fn = "parse_email" /\ ret # None) =>
    /\ ret.amount.v >= 0
    /\ ret.transaction_type \in {Str("credit"), Str("debit")}

\* C9: the insight calls never raise, and when the prompt cannot be built or
\* the model call fails they return a non-empty text holding the summary's
\* total spent (0 when the summary has none).
C9_InsightFallback ==
  call.fn \in {"daily_insight", "monthly_insight"} =>
    /\ ret # Raised
    /\ (call.reply.kind = "error"
          \/ (call.fn = "daily_insight" /\ PromptRaises(call.transactions)))
         => /\ ret.kind = "fallback"
            /\ ret.text # <<>>
            /\ \E i \in 1..Len(ret.text) :
                 ret.text[i] = Get(call.summary, "total_spent", Num(0))

\* C9 witness: an empty summary and a debit with a null amount: the fallback
\* sentence with total 0.
C9_Witness ==
  /\ call.fn = "daily_insight"
  /\ call.summary.total_spent = Absent
  /\ Truthy(call.transactions) /\ TotalsRaise(call.transactions)
  /\ ret.kind = "fallback" /\ ret.text[2] = Num(0)

\* The steps of one message, in the order of the pipeline; normalizing (the
\* choice of snippet or body) is the start of the extract step.
StepOrder == <<"extract", "lookup", "classify", "commit", "markread">>
Times(q, x) == Cardinality({i \in 1..Len(q) : q[i] = x})
IsPrefix(q, r) == Len(q) <= Len(r) /\ q = SubSeq(r, 1, Len(q))

C12_LookupFailureIsFailure ==
  last[1].look = "error" =>
    /\ Times(last[1].trace, "commit") = 0
    /\ Handled(1) => last[1].res = "failed"

\* C14: the steps of a message run in the order of the pipeline, and a
\* message whose id has a record in the store is neither classified nor
\* inserted.
C14_DedupShortCircuit ==
  /\ IsPrefix(last[1].trace, StepOrder)
  /\ last[1].present =>
       (Times(last[1].trace, "classify") = 0 /\ Times(last[1].trace, "commit") = 0)

\* What does hold: the order of the steps, and no classify and no insert after
\* a lookup that found a record.
StepsInOrderAndHitShortCircuits ==
  /\ IsPrefix(last[1].trace, StepOrder)
  /\ last[1].look = "hit" =>
       (last[1].trace = <<"extract", "lookup">> /\ last[1].res = "skipped")

C16_CancelledPrefix ==
  /\ pc[1] = "cancelled" => \A id \in okIds[1] : Present(store, id)
  /\ (repeated[1] /\ cancelledBefore[1] /\ last[1].id \in prevOk[1])
       => last[1].res # "inserted"

\* What does hold: no step, cancelling included, takes a row out of the store.
StoreOnlyGrows ==
  [][\A r \in BagToSet(store) : CopiesIn(r, store') >= CopiesIn(r, store)]_vars

\* C13: every message the mailbox listed for a run is in exactly one of the
\* inserted, skipped and failed counts of the run's result; one whose details
\* could not be fetched is counted failed.
C13_ListedAreCounted ==
  pc[1] = "done" =>
    counts[1].inserted + counts[1].skipped + counts[1].failed = Len(listed[1])

\* What does hold: the result counts each email that get_unread_emails
\* returned exactly once.
FetchedAreCounted ==
  pc[1] = "done" =>
    counts[1].inserted + counts[1].skipped + counts[1].failed = Len(batch[1])

\* The parts of a payload in document order, the payload itself first.
RECURSIVE Flatten(_)
RECURSIVE FlattenAll(_)
FlattenAll(parts) ==
  IF parts = <<>> THEN <<>> ELSE Flatten(Head(parts)) \o FlattenAll(Tail(parts))
Flatten(payload) ==
  <<payload>> \o (IF payload.parts = Absent THEN <<>> ELSE FlattenAll(payload.parts.v))
PlainParts(payload) == SelectSeq(Flatten(payload), LAMBDA q : q.mimeType = "text/plain")
HasTextPlain(payload) == PlainParts(payload) # <<>>

\* C17: for a payload that is a tree of parts, the body returned is the
\* decoded content of the first text/plain part in document order, at
\* whatever depth that part lies.
C17_FirstPlainAtAnyDepth ==
  (/\ call.fn = "get_message_body"
   /\ call.payload.parts # Absent
   /\ HasTextPlain(call.payload)
   /\ HasData(Head(PlainParts(call.payload))))
  => ret = DecodeData(Head(PlainParts(call.payload)).data)

\* What does hold: when a direct child of the payload is a text/plain part
\* with data, the body is the content of the first such child.
FirstPlainDirectChild ==
  (call.fn = "get_message_body" /\ call.payload.parts # Absent) =>
    LET direct == SelectSeq(call.payload.parts.v,
                            LAMBDA q : q.mimeType = "text/plain" /\ HasData(q))
    IN  ret = IF direct = <<>> THEN Str(<<>>) ELSE DecodeData(Head(direct).data)

\* C18: a payload with no text/plain part, be it a multipart payload or a
\* payload with a body of its own, has the empty string for its body, and the
\* extraction from it yields no record and does not raise.
C18_NoPlainTextIsEmpty ==
  /\ (call.fn = "get_message_body" /\ ~HasTextPlain(call.payload)) => ret = Str(<<>>)
  /\ (call.fn = "parse_message" /\ ~HasTextPlain(call.payload)) =>
       (ret # Raised /\ ret.body = Str(<<>>) /\ ret.parsed = None)

\* What does hold: a multipart payload none of whose direct children is a
\* text/plain part has the empty string for its body.
NoPlainChildIsEmpty ==
  (/\ call.fn = "get_message_body"
   /\ call.payload.parts # Absent
   /\ \A i \in 1..Len(call.payload.parts.v) : call.payload.parts.v[i].mimeType # "text/plain")
  => ret = Str(<<>>)

\* A date of the form YYYY-MM-DD.
IsIsoDate(cs) ==
  /\ Len(cs) = 10
  /\ \A i \in {1, 2, 3, 4, 6, 7, 9, 10} : IsDigit(cs[i])
  /\ cs[5] = "-" /\ cs[8] = "-"

\* C19: the date of a record that parse_email returns is of the form
\* YYYY-MM-DD: a DD-MM-YY date has been converted, and a reply whose date is
\* of another form yields no record.
C19_DateIsIso ==
  (call.fn = "parse_email" /\ ret # None) => IsIsoDate(ret.date.v)

\* What does hold: the date of the record is the date of the model's reply,
\* character for character.
DateIsTheRepliedDate ==
  (call.fn = "parse_email" /\ ret # None) => ret.date = call.resp.json.date

Core(r) == <<r.amount, r.transaction_type, r.transaction_date, r.email_id>>
RowsOf(rows, id) == {r \in BagToSet(rows) : r.email_id = Num(id)}

\* C21: no step of a run deletes or rewrites a committed record: the rows the
\* store holds for a message id stay, with the same amount, type, date and
\* message id; only their category columns may differ afterwards.
C21_CommittedImmutable ==
  [][\A id \in MsgIds :
       /\ Copies(store', id) >= Copies(store, id)
       /\ \A r \in RowsOf(store, id) : \E q \in RowsOf(store', id) : Core(q) = Core(r)]_vars

\* A later run committed a message that an earlier run had committed, and the
\* earlier row is still in the store.
C21_Witness ==
  /\ runs = 2 /\ pc[1] = "done"
  /\ last[1].id \in prevOk[1]
  /\ last[1].res = "inserted"
  /\ Copies(store, last[1].id) = 2

\* The rows of the table from start_date to end_date, by kind.
RowsWithin(table, start_date, end_date) ==
  [i \in 1..Len(Kinds) |->
     IF StrLeq(start_date, Kinds[i].transaction_date.v)
          /\ StrLeq(Kinds[i].transaction_date.v, end_date)
     THEN table[i] ELSE 0]
RowsOfMonth(c) == RowsWithin(c.table, MonthStart(c.year, c.month), MonthEnd(c.year, c.month))

\* C22: the average daily spend of a month is the total of the month's debit
\* rows divided by the number of days of the month, and 0 for a month
\* without rows.
C22_AveragePerCalendarDay ==
  (call.fn = "monthly_summary" /\ call.io = "ok" /\ ~ret.empty) =>
    LET total == SumAmounts(Kinds, RowsOfMonth(call), "debit", 1)
        days == MonthRange(call.year, call.month).v
    IN  /\ days \in 28..31
        /\ ret.average_daily_spend.num * days = total * ret.average_daily_spend.den
        /\ CountRows(RowsOfMonth(call), 1) = 0 => ret.average_daily_spend.num = 0

\* What does hold: the average is the summary's own total_spent divided by the
\* number of days of the month, and is the month's when the month has no more
\* rows than the limit.
AverageOfFetchedPerCalendarDay ==
  (call.fn = "monthly_summary" /\ ~ret.empty) =>
    /\ ret.average_daily_spend = Quotient(ret.total_spent, MonthRange(call.year, call.month).v)
    /\ (call.io = "ok" /\ CountRows(RowsOfMonth(call), 1) <= MonthlyLimit) =>
         ret.total_spent = SumAmounts(Kinds, RowsOfMonth(call), "debit", 1)

\* C28: the daily summary of a day reports the total of all the debit rows
\* dated that day, the total of all its credit rows, and the number of all
\* its rows, however many rows the day has.
C28_DailySummaryComplete ==
  (call.fn = "daily_summary" /\ call.io = "ok") =>
    LET ofDay == RowsWithin(call.table, call.target_date, call.target_date)
    IN  /\ ret.total_spent = SumAmounts(Kinds, ofDay, "debit", 1)
        /\ ret.total_earned = SumAmounts(Kinds, ofDay, "credit", 1)
        /\ ret.transaction_count = CountRows(ofDay, 1)

\* What does hold: the daily summary is complete for a day that has no more
\* rows than the default limit of get_transactions.
DailySummaryCompleteWithinLimit ==
  (/\ call.fn = "daily_summary" /\ call.io = "ok"
   /\ CountRows(RowsWithin(call.table, call.target_date, call.target_date), 1) <= DefaultLimit)
  => LET ofDay == RowsWithin(call.table, call.target_date, call.target_date)
     IN  /\ ret.total_spent = SumAmounts(Kinds, ofDay, "debit", 1)
         /\ ret.total_earned = SumAmounts(Kinds, ofDay, "credit", 1)
         /\ ret.transaction_count = CountRows(ofDay, 1)

\* C29: in a summary that is not empty, net is total_earned less total_spent,
\* and the transactions counted are the debit and credit rows summed: each
\* counted row is in one of the two totals.
C29_SummaryConsistent ==
  (call.fn \in {"daily_summary", "monthly_summary"} /\ ~ret.empty) =>
    LET transactions == GetTransactions(call.fetched, call.io)
        summed == [i \in 1..Len(Kinds) |->
                     IF Kinds[i].transaction_type \in {Str("debit"), Str("credit")}
                     THEN transactions[i] ELSE 0]
    IN  /\ ret.net = ret.total_earned - ret.total_spent
        /\ ret.transaction_count = CountRows(summed, 1)

\* What does hold: net is total_earned less total_spent, and the count is the
\* number of rows fetched, of whatever type.
NetIsEarnedLessSpent ==
  (call.fn \in {"daily_summary", "monthly_summary"} /\ ~ret.empty) =>
    /\ ret.net = ret.total_earned - ret.total_spent
    /\ ret.transaction_count = CountRows(GetTransactions(call.fetched, call.io), 1)

C24_CategoryBreakdown ==
  (call.fn = "daily_insight" /\ CategoryBreakdown(call.transactions).k = "list") =>
    LET lines == CategoryBreakdown(call.transactions).v
        ts == call.transactions.v
        CategoryOf(t) == IF t.category \in {Absent, Null} THEN Str("Others") ELSE t.category
        debits(cat) == {i \in 1..Len(ts) : IsDebit(ts[i]) /\ CategoryOf(ts[i]) = cat}
        RECURSIVE Total(_)
        Total(S) == IF S = {} THEN 0
                    ELSE LET i == CHOOSE j \in S : TRUE
                         IN  Get(ts[i], "amount", Num(0)).v + Total(S \ {i})
    IN  /\ \A i \in 1..Len(lines) :
             debits(lines[i].cat) # {} /\ lines[i].total = Total(debits(lines[i].cat))
        /\ \A i \in 1..Len(ts) :
             IsDebit(ts[i]) => \E j \in 1..Len(lines) : lines[j].cat = CategoryOf(ts[i])
        /\ \A i \in 1..Len(lines) : \A j \in 1..Len(lines) :
             i < j => (lines[i].cat # lines[j].cat /\ lines[i].total >= lines[j].total)

\* What does hold: the same with the category of a transaction read as
\* t.get('category', 'Others'), which is None for a category that is null.
CategoryBreakdownByGet ==
  (call.fn = "daily_insight" /\ CategoryBreakdown(call.transactions).k = "list") =>
    LET lines == CategoryBreakdown(call.transactions).v
        ts == call.transactions.v
        debits(cat) == {i \in 1..Len(ts) :
                          IsDebit(ts[i]) /\ Get(ts[i], "category", Str("Others")) = cat}
        RECURSIVE Total(_)
        Total(S) == IF S = {} THEN 0
                    ELSE LET i == CHOOSE j \in S : TRUE
                         IN  Get(ts[i], "amount", Num(0)).v + Total(S \ {i})
    IN  /\ \A i \in 1..Len(lines) :
             debits(lines[i].cat) # {} /\ lines[i].total = Total(debits(lines[i].cat))
        /\ \A i \in 1..Len(ts) :
             IsDebit(ts[i]) =>
               \E j \in 1..Len(lines) : lines[j].cat = Get(ts[i], "category", Str("Others"))
        /\ \A i \in 1..Len(lines) : \A j \in 1..Len(lines) :
             i < j => (lines[i].cat # lines[j].cat /\ lines[i].total >= lines[j].total)

\* C25: when the model answers, the daily insight is the model's answer,
\* trimmed, and the model was called once, for every list of transactions
\* whose debit amounts are numbers, a debit with a null merchant included.
C25_ModelAnswerReturned ==
  (/\ call.fn = "daily_insight"
   /\ call.reply.kind = "text"
   /\ ~(Truthy(call.transactions) /\ TotalsRaise(call.transactions)))
  => /\ ret = [kind |-> "llm", text |-> Strip(call.reply.text)]
     /\ DailyInsightInvocations(call.transactions) = 1

\* What does hold: the model's trimmed answer is returned after one call
\* whenever the prompt could be built, and the fallback after a prompt that
\* could not be built has made no call.
ModelAnswerWhenPromptBuilt ==
  (call.fn = "daily_insight" /\ call.reply.kind = "text") =>
    IF PromptRaises(call.transactions)
    THEN ret.kind = "fallback" /\ DailyInsightInvocations(call.transactions) = 0
    ELSE /\ ret = [kind |-> "llm", text |-> Strip(call.reply.text)]
         /\ DailyInsightInvocations(call.transactions) = 1

C27_SourceIdentity ==
  call.fn = "batch_path" =>
    LET emails == call.emails
        good == SelectSeq([i \in 1..Len(emails) |-> i],
                          LAMBDA i : ReplyKind(call.resps[i]) = "ok")
    IN  /\ Len(ret.parsed) = Len(good)
        /\ \A j \in 1..Len(good) : ret.parsed[j].email_id = Num(emails[good[j]])
        /\ \A j \in 1..Len(good) :
             call.ios[j] = "ok" =>
               LET found == GetTransactionByEmailId(ret.rows, emails[good[j]], "ok")
               IN  found # None /\ found.email_id = Num(emails[good[j]])
        /\ \A r \in BagToSet(ret.rows) : \E i \in 1..Len(emails) : r.email_id = Num(emails[i])

\* Of three emails the first and the third were parsed and inserted, and both
\* rows are found under the ids of their emails.
C27_Witness ==
  /\ call.fn = "batch_path"
  /\ Len(call.emails) = 3
  /\ Len(ret.parsed) = 2 /\ Len(ret.inserted) = 2
  /\ ReplyKind(call.resps[2]) # "ok"
  /\ GetTransactionByEmailId(ret.rows, call.emails[1], "ok") # None
  /\ GetTransactionByEmailId(ret.rows, call.emails[2], "ok") = None
  /\ GetTransactionByEmailId(ret.rows, call.emails[3], "ok") # None

\* C30: from a GmailService that never connected, every call of a sequence of
\* get_unread_emails, get_all_emails and mark_as_read calls returns a value, a
\* list from the fetches and a boolean from mark_as_read, and none raises; a
\* fetch on a service that is not connected connects it; mark_as_read on a
\* service that never connected returns False.
C30_MailboxSafeInAnyOrder ==
  /\ call.fn \in {"get_unread_emails", "get_all_emails"} =>
       (ret # Raised /\ ret.k = "list")
  /\ call.fn = "mark_as_read" =>
       (ret \in {Bool(TRUE), Bool(FALSE)} /\ (call.service = None => ret = Bool(FALSE)))

\* What does hold: a fetch connects a service that is not connected when
\* build() succeeds, and leaves one that is connected as it is; a fetch
\* returns a list when neither build() nor a request raises anything but an
\* HttpError; mark_as_read on a connected service returns a boolean when the
\* request raises nothing but an HttpError.
MailboxSafeWhenConnected ==
  /\ call.fn \in {"get_unread_emails", "get_all_emails"} =>
       /\ (call.service = None /\ call.build = "ok") => service # None
       /\ call.service # None => service = call.service
       /\ ((call.service # None \/ call.build # "other_error")
             /\ \A i \in 1..Len(call.listing.ids) :
                  call.fetch[call.listing.ids[i]] # "other_error")
          => (ret # Raised /\ ret.k = "list")
       /\ (call.service = None /\ call.build = "http_error") => ret = List(<<>>)
  /\ (call.fn = "mark_as_read" /\ call.service # None /\ call.io # "other_error") =>
       ret \in {Bool(TRUE), Bool(FALSE)}
  /\ (call.fn = "mark_as_read" /\ call.service = None) => ret = Raised
====
